---------------------------- MODULE Spec2Model ----------------------------
(***************************************************************************)
(* A model of the heart-rate analysis module src/heartbeat/__init__.py.    *)
(*                                                                         *)
(* The module keeps its state in two process-wide dicts, working_data and  *)
(* measures, and its functions read and write them.  Each public function  *)
(* is one action.  Numbers are exact: a real value is a rational           *)
(* [num, den] with den > 0, [num |-> 0, den |-> 0] is NaN and              *)
(* [num |-> 1, den |-> 0] is +inf.  A standard deviation is kept as its    *)
(* square (the variance), which orders the same way.  Indices into Python  *)
(* arrays are kept 0-based as values; TLA+ sequences are 1-based.          *)
(***************************************************************************)
EXTENDS Integers, Sequences, FiniteSets, TLC

VARIABLES
    hrdata,        \* the signal handed to the module (numpy array of samples)
    sample_rate,   \* its sample rate in Hz
    rol_mean,      \* the rolling mean last computed by rolmean()
    working_data,  \* the module-level dict working_data
    measures,      \* the module-level dict measures
    call,          \* the last call made on the module, with its arguments
    outcome,       \* how that call ended: "ok" or the exception it raised
    result,        \* the value that call returned, when it returns a peak list
    returned       \* the records process() has returned so far

vars == <<hrdata, sample_rate, rol_mean, working_data, measures, call, outcome,
          result, returned>>

----------------------------------------------------------------------------
(* Bounds of the model *)

\* longest signal of the exhaustive short-signal family
MaxLen == 5

\* most beats in a generated pulse train
MaxBeats == 10

\* most peaks in a sparse peak train handed to quality control
MaxPeaks == 7

\* most pipeline runs that return in one behaviour
MaxRuns == 2

\* late pulses in each part of a long train
MaxLate == 4

----------------------------------------------------------------------------
(* Exact arithmetic *)

Abs(x) == IF x < 0 THEN -x ELSE x

Sign(x) == IF x < 0 THEN -1 ELSE 1

RECURSIVE GCD(_, _)
GCD(a, b) == IF b = 0 THEN a ELSE GCD(b, a % b)

NaN == [num |-> 0, den |-> 0]

Inf == [num |-> 1, den |-> 0]

Reduce(n, d, g) == [num |-> Sign(d) * (n \div g), den |-> Sign(d) * (d \div g)]

\* the rational n/d in lowest terms; x/0 is NaN for x = 0 and inf otherwise
Rat(n, d) ==
    IF d = 0 THEN (IF n = 0 THEN NaN ELSE Inf)
    ELSE Reduce(n, d, GCD(Abs(n), Abs(d)))

IsNaN(r) == r.den = 0 /\ r.num = 0

IsInf(r) == r.den = 0 /\ r.num # 0

\* a < b on floats: false when either is NaN
RatLT(a, b) ==
    IF IsNaN(a) \/ IsNaN(b) THEN FALSE
    ELSE IF IsInf(a) THEN FALSE
    ELSE IF IsInf(b) THEN TRUE
    ELSE a.num * b.den < b.num * a.den

\* a <= b on floats: false when either is NaN
RatLE(a, b) ==
    IF IsNaN(a) \/ IsNaN(b) THEN FALSE
    ELSE IF IsInf(b) THEN TRUE
    ELSE IF IsInf(a) THEN FALSE
    ELSE a.num * b.den <= b.num * a.den

\* integer x > real r
IntGT(x, r) == RatLT(r, [num |-> x, den |-> 1])

RECURSIVE SumSeq(_)
SumSeq(s) == IF s = <<>> THEN 0 ELSE Head(s) + SumSeq(Tail(s))

RECURSIVE SumSq(_)
SumSq(s) == IF s = <<>> THEN 0 ELSE Head(s) * Head(s) + SumSq(Tail(s))

\* np.mean: NaN on an empty array
Mean(s) == Rat(SumSeq(s), Len(s))

\* the square of np.std (population standard deviation): NaN on an empty array
Variance(s) == Rat(Len(s) * SumSq(s) - SumSeq(s) * SumSeq(s), Len(s) * Len(s))

\* the elements of a finite set of integers in increasing order
RECURSIVE SortedSeq(_)
SortedSeq(S) ==
    IF S = {} THEN <<>>
    ELSE LET m == CHOOSE x \in S : \A y \in S : x <= y
         IN  <<m>> \o SortedSeq(S \ {m})

\* np.diff
Diff(s) == [i \in 1..(Len(s) - 1) |-> s[i + 1] - s[i]]

AbsSeq(s) == [i \in 1..Len(s) |-> Abs(s[i])]

SqSeq(s) == [i \in 1..Len(s) |-> s[i] * s[i]]

\* the entries of s at the (1-based) positions listed in idx
Pick(s, idx) == [k \in 1..Len(idx) |-> s[idx[k]]]

----------------------------------------------------------------------------
(* The module-level dicts.  A dict is a record of all the keys the module  *)
(* ever writes plus the set "keys" of those present.                       *)

\* working_data = {}
EmptyWorkingData ==
    [keys |-> {}, hr |-> <<>>, peaklist |-> <<>>, ybeat |-> <<>>, rolmean |-> <<>>,
     RR_list |-> <<>>, RR_diff |-> <<>>, RR_sqdiff |-> <<>>, rrsd |-> NaN, best |-> 0,
     peaklist_cor |-> <<>>, removed_beats |-> <<>>, removed_beats_y |-> <<>>,
     binary_peaklist |-> <<>>, rejected_segments |-> <<>>, RR_masklist |-> <<>>,
     RR_list_cor |-> <<>>]

\* the arguments a call can carry; those a call does not take stay at these values
NoCall ==
    [op |-> "none", ma_perc |-> 0, update_dict |-> TRUE, bpmmin |-> 0, bpmmax |-> 0,
     reject_segmentwise |-> FALSE, calc_freq |-> FALSE, window |-> 0,
     threshold |-> 0, iterations |-> 0]

----------------------------------------------------------------------------
(* rolmean *)

\* int(windowsize * sample_rate), windowsize a rational number of seconds
WindowLen(windowsize, sr) == (windowsize.num * sr) \div windowsize.den

\* np.mean(rollwindow(data_arr, w), axis=1): one mean per full window
rollwindow(data, w) ==
    [j \in 1..(Len(data) - w + 1) |-> Rat(SumSeq(SubSeq(data, j, j + w - 1)), w)]

\* line 224: the global mean, repeated half the length deficit times
MissingVals(data, rm) == [i \in 1..(Abs(Len(data) - Len(rm)) \div 2) |-> Mean(data)]

\* lines 225-226: the padding goes on both ends
Padded(rm, missing_vals) == missing_vals \o rm \o missing_vals

\* lines 228-233: one short appends a zero, otherwise the last entry goes
FixLength(padded, n) ==
    IF Len(padded) # n
    THEN IF Len(padded) - n < 0
         THEN Append(padded, [num |-> 0, den |-> 1])
         ELSE SubSeq(padded, 1, Len(padded) - 1)
    ELSE padded

RolMeanOf(data, rm) == FixLength(Padded(rm, MissingVals(data, rm)), Len(data))

\* a variant that forgets the one-sample correction of lines 228-233
rolmean_nofix(data, w) == Padded(rollwindow(data, w), MissingVals(data, rollwindow(data, w)))

rolmean(data, w) == RolMeanOf(data, rollwindow(data, w))

----------------------------------------------------------------------------
(* calc_rr *)

\* a variant that deletes the first peak but leaves its amplitude in ybeat
DropFirstPeakOnly(wd, sr) ==
    IF Len(wd.peaklist) > 0 /\ wd.peaklist[1] * 1000 <= sr * 150
    THEN [wd EXCEPT !.peaklist = Tail(@)]
    ELSE wd

\* lines 437-441: delete the first peak when it lies within the first 150 ms
DropFirst(wd, sr) ==
    IF Len(wd.peaklist) > 0 /\ wd.peaklist[1] * 1000 <= sr * 150
    THEN [wd EXCEPT !.peaklist = Tail(@), !.ybeat = Tail(@)]
    ELSE wd

\* line 443: the peak-peak intervals in ms
RRList(peaklist, sr) ==
    [i \in 1..(Len(peaklist) - 1) |-> ((peaklist[i + 1] - peaklist[i]) * 1000) \div sr]

\* lines 444-448
StoreRR(wd, rr_list, rr_diff) ==
    [wd EXCEPT !.RR_list = rr_list, !.RR_diff = rr_diff, !.RR_sqdiff = SqSeq(rr_diff),
               !.keys = @ \cup {"RR_list", "RR_diff", "RR_sqdiff"}]

CalcRRFrom(wd, rr_list) == StoreRR(wd, rr_list, AbsSeq(Diff(rr_list)))

CalcRRDropped(wd, sr) == CalcRRFrom(wd, RRList(wd.peaklist, sr))

calc_rr(wd, sr) == CalcRRDropped(DropFirst(wd, sr), sr)

----------------------------------------------------------------------------
(* detect_peaks *)

\* rmean + ((rmean / 100) * ma_perc)
RaisedMean(rm, ma_perc) ==
    [i \in 1..Len(rm) |-> Rat(rm[i].num * (100 + ma_perc), rm[i].den * 100)]

\* np.where(hrdata > rol_mean)[0]: the 0-based indices above the raised mean
PeaksX(h, raised) == SortedSeq({j - 1 : j \in {i \in 1..Len(h) : IntGT(h[i], raised[i])}})

\* [0] ++ np.where(np.diff(peaksx) > 1)[0] ++ [len(peaksx)]
PeakEdges(peaksx) ==
    <<0>> \o SortedSeq({i \in 0..(Len(peaksx) - 2) : peaksx[i + 2] - peaksx[i + 1] > 1})
          \o <<Len(peaksx)>>

\* y_values.index(max(y_values)), 0-based: the first position of the maximum
IndexOfMax(y) ==
    (CHOOSE j \in 1..Len(y) :
        /\ \A k \in 1..Len(y) : y[k] <= y[j]
        /\ \A k \in 1..(j - 1) : y[k] < y[j]) - 1

\* lines 335-339 for the slice peaksy[lo:hi]; max() of an empty slice raises
\* and the bare except skips that slice
SlicePeak(h, peaksx, lo, hi) ==
    IF hi <= lo THEN <<>>
    ELSE <<peaksx[lo + IndexOfMax([k \in 1..(hi - lo) |-> h[peaksx[lo + k] + 1]]) + 1]>>

\* the loop of lines 334-339
RECURSIVE PeakLoop(_, _, _, _)
PeakLoop(h, peaksx, peakedges, i) ==
    IF i > Len(peakedges) - 1 THEN <<>>
    ELSE SlicePeak(h, peaksx, peakedges[i], peakedges[i + 1])
         \o PeakLoop(h, peaksx, peakedges, i + 1)

PeakListOf(h, peaksx) == PeakLoop(h, peaksx, PeakEdges(peaksx), 1)

\* the peak list of lines 325-339
PeakList(h, rm, ma_perc) == PeakListOf(h, PeaksX(h, RaisedMean(rm, ma_perc)))

\* lines 342-344
StorePeaks(wd, h, peaklist, raised) ==
    [wd EXCEPT !.peaklist = peaklist,
               !.ybeat = [i \in 1..Len(peaklist) |-> h[peaklist[i] + 1]],
               !.rolmean = raised,
               !.keys = @ \cup {"peaklist", "ybeat", "rolmean"}]

\* lines 346-349; np.std kept as its square
StoreRrsd(wd) ==
    [wd EXCEPT !.rrsd = IF Len(wd.RR_list) > 0 THEN Variance(wd.RR_list) ELSE Inf,
               !.keys = @ \cup {"rrsd"}]

\* detect_peaks(..., update_dict=True)
detect_peaks(wd, h, rm, ma_perc, sr) ==
    StoreRrsd(calc_rr(StorePeaks(wd, h, PeakList(h, rm, ma_perc),
                                 RaisedMean(rm, ma_perc)), sr))

----------------------------------------------------------------------------
(* fit_peaks *)

ma_perc_list == <<5, 10, 15, 20, 25, 30, 40, 50, 60, 70, 80, 90, 100, 110, 120, 150, 200, 300>>

\* lines 370-371: what the scan records for one candidate
ScanEntry(wd, h, sr, ma_perc) ==
    [rrsd |-> wd.rrsd, bpm |-> Rat(Len(wd.peaklist) * sr * 60, Len(h)), ma_perc |-> ma_perc]

ScanCons(entry, rest) == [rrsd |-> <<entry>> \o rest.rrsd, wd |-> rest.wd]

\* the scan of lines 368-371: detect with every candidate in turn; yields the
\* working_data left by the last candidate and the list rrsd
RECURSIVE FitScan(_, _, _, _, _)
RECURSIVE FitStep(_, _, _, _, _)
FitStep(wd1, h, rm, sr, i) ==
    ScanCons(ScanEntry(wd1, h, sr, ma_perc_list[i]), FitScan(wd1, h, rm, sr, i + 1))

FitScan(wd, h, rm, sr, i) ==
    IF i > Len(ma_perc_list) THEN [rrsd |-> <<>>, wd |-> wd]
    ELSE FitStep(detect_peaks(wd, h, rm, ma_perc_list[i], sr), h, rm, sr, i)

\* (_rrsd > 0.1) and (bpmmin <= _bpm <= bpmmax), _rrsd kept as its square
ValidCandidate(c, bpmmin, bpmmax) ==
    /\ RatLT([num |-> 1, den |-> 100], c.rrsd)
    /\ RatLE([num |-> bpmmin, den |-> 1], c.bpm)
    /\ RatLE(c.bpm, [num |-> bpmmax, den |-> 1])

\* lines 373-375
ValidMa(rrsd, bpmmin, bpmmax) ==
    Pick(rrsd, SortedSeq({i \in 1..Len(rrsd) : ValidCandidate(rrsd[i], bpmmin, bpmmax)}))

\* a variant of min() that keeps the last of several minimal entries
MinByRrsdLast(valid_ma) ==
    valid_ma[CHOOSE j \in 1..Len(valid_ma) :
        /\ \A k \in 1..Len(valid_ma) : ~RatLT(valid_ma[k].rrsd, valid_ma[j].rrsd)
        /\ \A k \in (j + 1)..Len(valid_ma) : RatLT(valid_ma[j].rrsd, valid_ma[k].rrsd)]

\* min(valid_ma, key=lambda t: t[0]): the first entry no other entry is below
MinByRrsd(valid_ma) ==
    valid_ma[CHOOSE j \in 1..Len(valid_ma) :
        /\ \A k \in 1..Len(valid_ma) : ~RatLT(valid_ma[k].rrsd, valid_ma[j].rrsd)
        /\ \A k \in 1..(j - 1) : RatLT(valid_ma[j].rrsd, valid_ma[k].rrsd)]

\* lines 378-379 with the minimum found
FitBest(wd, best, h, rm, sr) ==
    detect_peaks([wd EXCEPT !.best = best, !.keys = @ \cup {"best"}], h, rm, best, sr)

\* lines 378-379: min() of an empty list raises ValueError
FitFinish(wd, valid_ma, h, rm, sr) ==
    IF valid_ma = <<>>
    THEN [wd |-> wd, outcome |-> "ValueError"]
    ELSE [wd |-> FitBest(wd, MinByRrsd(valid_ma).ma_perc, h, rm, sr), outcome |-> "ok"]

FitChoose(scan, h, rm, sr, bpmmin, bpmmax) ==
    FitFinish(scan.wd, ValidMa(scan.rrsd, bpmmin, bpmmax), h, rm, sr)

\* fit_peaks: the working_data it leaves and how it ends
fit_peaks(wd, h, rm, sr, bpmmin, bpmmax) ==
    FitChoose(FitScan(wd, h, rm, sr, 1), h, rm, sr, bpmmin, bpmmax)

----------------------------------------------------------------------------
(* check_peaks, check_binary_quality, update_rr *)

\* (0.3 * mean_rr) <= 300; false when mean_rr is NaN
FixedMargin(rr) == Len(rr) > 0 /\ 3 * SumSeq(rr) <= 3000 * Len(rr)

\* line 387
upper_threshold(rr) ==
    IF FixedMargin(rr) THEN Rat(SumSeq(rr) + 300 * Len(rr), Len(rr))
    ELSE Rat(13 * SumSeq(rr), 10 * Len(rr))

\* line 388
lower_threshold(rr) ==
    IF FixedMargin(rr) THEN Rat(SumSeq(rr) - 300 * Len(rr), Len(rr))
    ELSE Rat(7 * SumSeq(rr), 10 * Len(rr))

\* a variant that removes an interval only when it is strictly outside
RemovedRRStrict(x, lower, upper) ==
    RatLT([num |-> x, den |-> 1], lower) \/ RatLT(upper, [num |-> x, den |-> 1])

\* (rr_arr <= lower_threshold) | (rr_arr >= upper_threshold)
RemovedRR(x, lower, upper) ==
    RatLE([num |-> x, den |-> 1], lower) \/ RatLE(upper, [num |-> x, den |-> 1])

\* (rr_arr > lower_threshold) & (rr_arr < upper_threshold)
AcceptedRR(x, lower, upper) ==
    RatLT(lower, [num |-> x, den |-> 1]) /\ RatLT([num |-> x, den |-> 1], upper)

\* np.where(...)[0] + 1 as 1-based positions in peaklist: interval i ends at peak i + 1
RemovedAt(rr, lower, upper) ==
    SortedSeq({i + 1 : i \in {k \in 1..Len(rr) : RemovedRR(rr[k], lower, upper)}})

AcceptedAt(rr, lower, upper) ==
    SortedSeq({i + 1 : i \in {k \in 1..Len(rr) : AcceptedRR(rr[k], lower, upper)}})

InSeq(x, s) == \E k \in 1..Len(s) : s[k] = x

\* lines 397-398
BinaryPeaklist(peaklist, removed_beats) ==
    [k \in 1..Len(peaklist) |-> IF InSeq(peaklist[k], removed_beats) THEN 0 ELSE 1]

\* lines 390-398 with the thresholds computed
StoreChecked(wd, removed_at, accepted_at) ==
    [wd EXCEPT !.peaklist_cor = <<wd.peaklist[1]>> \o Pick(wd.peaklist, accepted_at),
               !.removed_beats = Pick(wd.peaklist, removed_at),
               !.removed_beats_y = Pick(wd.ybeat, removed_at),
               !.binary_peaklist = BinaryPeaklist(wd.peaklist, Pick(wd.peaklist, removed_at)),
               !.keys = @ \cup {"peaklist_cor", "removed_beats", "removed_beats_y",
                                "binary_peaklist"}]

CheckedWith(wd, lower, upper) ==
    StoreChecked(wd, RemovedAt(wd.RR_list, lower, upper), AcceptedAt(wd.RR_list, lower, upper))

\* maxrejects=3 of check_binary_quality
maxrejects == 3

\* np.bincount(binary_peaklist[idx:idx + 10])[0] for the window starting at 10 * i
ZerosInWindow(b, i) == Cardinality({k \in (10 * i + 1)..(10 * i + 10) : b[k] = 0})

\* the windows of the loop of lines 415-422 that are zeroed
BadWindows(b) == {i \in 0..((Len(b) \div 10) - 1) : ZerosInWindow(b, i) > maxrejects}

\* lines 418-421
RejectedSegment(peaklist, idx) ==
    IF idx + 10 < Len(peaklist)
    THEN <<peaklist[idx + 1], peaklist[idx + 11]>>
    ELSE <<peaklist[idx + 1], peaklist[Len(peaklist)]>>

SegmentsOf(peaklist, bad) == [k \in 1..Len(bad) |-> RejectedSegment(peaklist, 10 * bad[k])]

\* a variant that records the segments but works on a copy of the list
QualityOnCopy(wd, bad) ==
    [wd EXCEPT !.rejected_segments = SegmentsOf(wd.peaklist, SortedSeq(bad)),
               !.keys = @ \cup {"rejected_segments"}]

\* check_binary_quality(working_data['binary_peaklist']): the list is changed in place
QualityWith(wd, bad) ==
    [wd EXCEPT !.binary_peaklist =
                   [k \in 1..Len(@) |-> IF ((k - 1) \div 10) \in bad THEN 0 ELSE @[k]],
               !.rejected_segments = SegmentsOf(wd.peaklist, SortedSeq(bad)),
               !.keys = @ \cup {"rejected_segments"}]

check_binary_quality(wd) == QualityWith(wd, BadWindows(wd.binary_peaklist))

\* b_peaks[i] + b_peaks[i+1] == 2 for interval i (1-based)
KeptRR(b_peaks, i) == b_peaks[i] + b_peaks[i + 1] = 2

\* a variant that takes the differences of the kept intervals across the gaps
DiffAcrossGaps(rr_source, b_peaks) ==
    AbsSeq(Diff(Pick(rr_source, SortedSeq({i \in 1..Len(rr_source) : KeptRR(b_peaks, i)}))))

\* lines 460-462: the differences of the masked array that are not masked, which
\* are those between two adjacent kept intervals
MaskedDiff(rr_source, b_peaks) ==
    Pick(AbsSeq(Diff(rr_source)),
         SortedSeq({i \in 1..(Len(rr_source) - 1) :
                        KeptRR(b_peaks, i) /\ KeptRR(b_peaks, i + 1)}))

\* lines 463-468
StoreUpdated(wd, rr_diff) ==
    [wd EXCEPT !.RR_masklist = [i \in 1..Len(wd.RR_list) |->
                                   IF KeptRR(wd.binary_peaklist, i) THEN 0 ELSE 1],
               !.RR_list_cor = Pick(wd.RR_list,
                                    SortedSeq({i \in 1..Len(wd.RR_list) :
                                                   KeptRR(wd.binary_peaklist, i)})),
               !.RR_diff = rr_diff,
               !.RR_sqdiff = SqSeq(rr_diff),
               !.keys = @ \cup {"RR_masklist", "RR_list_cor"}]

update_rr(wd) == StoreUpdated(wd, MaskedDiff(wd.RR_list, wd.binary_peaklist))

\* check_peaks(reject_segmentwise), on a working_data that holds a peak
check_peaks(wd, reject_segmentwise) ==
    update_rr(IF reject_segmentwise
              THEN check_binary_quality(CheckedWith(wd, lower_threshold(wd.RR_list),
                                                    upper_threshold(wd.RR_list)))
              ELSE CheckedWith(wd, lower_threshold(wd.RR_list), upper_threshold(wd.RR_list)))

----------------------------------------------------------------------------
(* calc_ts_measures *)

\* measures = {}; a value the model does not compute is kept as the input it
\* is computed from
EmptyMeasures ==
    [keys |-> {}, bpm |-> NaN, ibi |-> NaN, sdnn |-> NaN, sdsd |-> NaN, rmssd |-> NaN,
     nn20 |-> <<>>, nn50 |-> <<>>, pnn20 |-> NaN, pnn50 |-> NaN, hr_mad |-> NaN,
     breathingrate |-> <<>>, fd |-> <<>>]

\* twice np.median of a non-empty list of integers
TwiceMedianSorted(t) ==
    IF Len(t) % 2 = 1 THEN 2 * t[(Len(t) + 1) \div 2]
    ELSE t[Len(t) \div 2] + t[(Len(t) \div 2) + 1]

TwiceMedian(s) == TwiceMedianSorted(SortSeq(s, LAMBDA a, b : a < b))

MADWith(data, med2) == Rat(TwiceMedian([i \in 1..Len(data) |-> Abs(2 * data[i] - med2)]), 4)

\* MAD(data): np.median(np.abs(data - np.median(data))); NaN on an empty list
MAD(data) == IF data = <<>> THEN NaN ELSE MADWith(data, TwiceMedian(data))

\* [x for x in rr_diff if x > limit]
Exceeding(rr_diff, limit) ==
    Pick(rr_diff, SortedSeq({i \in 1..Len(rr_diff) : rr_diff[i] > limit}))

\* lines 481-489; sdnn and sdsd are kept squared, rmssd too
StoreTs(m, rr_list, rr_diff, rr_sqdiff) ==
    [m EXCEPT !.bpm = Rat(60000 * Len(rr_list), SumSeq(rr_list)),
              !.ibi = Mean(rr_list),
              !.sdnn = Variance(rr_list),
              !.sdsd = Variance(rr_diff),
              !.rmssd = Mean(rr_sqdiff),
              !.nn20 = Exceeding(rr_diff, 20),
              !.nn50 = Exceeding(rr_diff, 50),
              !.keys = @ \cup {"bpm", "ibi", "sdnn", "sdsd", "rmssd", "nn20", "nn50"}]

\* lines 490-492, reached when len(rr_diff) is not 0
StorePnn(m, rr_list, rr_diff) ==
    [m EXCEPT !.pnn20 = Rat(Len(m.nn20), Len(rr_diff)),
              !.pnn50 = Rat(Len(m.nn50), Len(rr_diff)),
              !.hr_mad = MAD(rr_list),
              !.keys = @ \cup {"pnn20", "pnn50", "hr_mad"}]

\* calc_ts_measures: float(len(nn20)) / float(len(rr_diff)) raises
\* ZeroDivisionError on an empty rr_diff, after lines 481-489 have stored
calc_ts_measures(wd, m) ==
    IF Len(wd.RR_diff) = 0
    THEN [m |-> StoreTs(m, wd.RR_list_cor, wd.RR_diff, wd.RR_sqdiff),
          outcome |-> "ZeroDivisionError"]
    ELSE [m |-> StorePnn(StoreTs(m, wd.RR_list_cor, wd.RR_diff, wd.RR_sqdiff),
                         wd.RR_list_cor, wd.RR_diff),
          outcome |-> "ok"]

----------------------------------------------------------------------------
(* calc_breathing, calc_fd_measures *)

\* the window rolmean(breathing, 0.75, 100.0) uses: int(0.75 * 100.0)
breathing_window == 75

\* the order k=3 of the splines
spline_order == 3

\* calc_breathing: UnivariateSpline raises unless it gets more than k points,
\* and rolmean raises on the ten-fold upsampled series when it is shorter than the
\* window.  The estimate itself is kept as the input it is computed from.
calc_breathing(wd, m, sr) ==
    IF Len(wd.RR_list_cor) <= spline_order THEN [m |-> m, outcome |-> "SplineError"]
    ELSE IF Len(wd.RR_list_cor) * 10 < breathing_window
         THEN [m |-> m, outcome |-> "ValueError"]
    ELSE [m |-> [m EXCEPT !.breathingrate = <<[rr |-> wd.RR_list_cor, n |-> Len(wd.hr),
                                               sr |-> sr]>>,
                          !.keys = @ \cup {"breathingrate"}],
          outcome |-> "ok"]

\* calc_fd_measures: rr_x[0] raises IndexError on an empty list and the spline
\* raises unless it gets more than k points.  The spectral measures are kept as
\* the input they are computed from.
calc_fd_measures(wd, m) ==
    IF Len(wd.RR_list_cor) = 0 THEN [m |-> m, outcome |-> "IndexError"]
    ELSE IF Len(wd.RR_list_cor) <= spline_order THEN [m |-> m, outcome |-> "SplineError"]
    ELSE [m |-> [m EXCEPT !.fd = <<[rr |-> wd.RR_list_cor, method |-> "welch"]>>,
                          !.keys = @ \cup {"lf", "hf", "lf/hf", "interp_rr_function",
                                           "interp_rr_linspace"}],
          outcome |-> "ok"]

----------------------------------------------------------------------------
(* mark_clipping *)

\* np.where(hrdata > threshold): the 0-based indices above the threshold
ClipBinary(h, threshold) == SortedSeq({j - 1 : j \in {i \in 1..Len(h) : h[i] > threshold}})

\* np.where(np.diff(clip_binary) > 1)[1]
ClippingEdges(clip) ==
    SortedSeq({i \in 0..(Len(clip) - 2) : clip[i + 2] - clip[i + 1] > 1})

\* the loop of lines 108-118; i never equals len(clipping_edges) inside the range
ClippingSegments(clip, edges) ==
    [k \in 1..Len(edges) |->
        IF k = 1 THEN <<clip[1], clip[edges[1] + 1]>>
        ELSE <<clip[edges[k - 1] + 2], clip[edges[k] + 1]>>]

ClippingSegmentsOf(clip) == ClippingSegments(clip, ClippingEdges(clip))

mark_clipping(h, threshold) == ClippingSegmentsOf(ClipBinary(h, threshold))

\* interp_threshold=1020 of process
interp_threshold == 1020

\* interpolate_peaks fits a spline over a segment unless it starts within the
\* first int(0.1 * sample_rate) samples
NeedsSpline(h, sr, threshold) ==
    \E k \in 1..Len(mark_clipping(h, threshold)) :
        mark_clipping(h, threshold)[k][1] >= sr \div 10

----------------------------------------------------------------------------
(* scale_data, enhance_peaks *)

\* the samples of an integer array as reals
AsReal(h) == [i \in 1..Len(h) |-> [num |-> h[i], den |-> 1]]

\* a <= b for finite a and b, cross-multiplied over the least common denominator
FiniteLE(a, b) ==
    a.num * (b.den \div GCD(a.den, b.den)) <= b.num * (a.den \div GCD(a.den, b.den))

\* np.min and np.max: NaN as soon as one element is NaN
ArrayMin(data) ==
    IF \E i \in 1..Len(data) : IsNaN(data[i]) THEN NaN
    ELSE data[CHOOSE i \in 1..Len(data) : \A j \in 1..Len(data) : FiniteLE(data[i], data[j])]

ArrayMax(data) ==
    IF \E i \in 1..Len(data) : IsNaN(data[i]) THEN NaN
    ELSE data[CHOOSE i \in 1..Len(data) : \A j \in 1..Len(data) : FiniteLE(data[j], data[i])]

\* a - b for finite or NaN operands
RatSub(a, b) ==
    IF IsNaN(a) \/ IsNaN(b) THEN NaN
    ELSE Rat(a.num * (b.den \div GCD(a.den, b.den)) - b.num * (a.den \div GCD(a.den, b.den)),
             a.den * (b.den \div GCD(a.den, b.den)))

\* a / b for finite or NaN operands: 0/0 is NaN and x/0 is inf, as numpy divides
RatDiv(a, b) ==
    IF IsNaN(a) \/ IsNaN(b) THEN NaN
    ELSE IF b.num = 0 THEN Rat(a.num, 0)
    ELSE Rat((a.num \div GCD(Abs(a.num), Abs(b.num))) * b.den,
             a.den * (b.num \div GCD(Abs(a.num), Abs(b.num))))

Times1024(r) == IF r.den = 0 THEN r ELSE Rat(1024 * r.num, r.den)

\* line 75: 1024 * ((data - minimum) / range), element by element
ScaledWith(data, minimum, range) ==
    [i \in 1..Len(data) |-> Times1024(RatDiv(RatSub(data[i], minimum), range))]

\* scale_data(data): returns a new array, data itself is left as it was
scale_data(data) ==
    ScaledWith(data, ArrayMin(data), RatSub(ArrayMax(data), ArrayMin(data)))

\* np.power(hrdata, 2)
Squared(data) ==
    [i \in 1..Len(data) |->
        IF data[i].den = 0 THEN data[i]
        ELSE [num |-> data[i].num * data[i].num, den |-> data[i].den * data[i].den]]

\* lines 87-89: square, then scale, iterations times
RECURSIVE EnhanceLoop(_, _)
EnhanceLoop(data, iterations) ==
    IF iterations = 0 THEN data
    ELSE EnhanceLoop(scale_data(Squared(data)), iterations - 1)

\* enhance_peaks(hrdata, iterations): line 86 calls scale_data(hrdata) and drops
\* what it returns, so the loop starts from hrdata as given
enhance_peaks(h, iterations) == EnhanceLoop(AsReal(h), iterations)

----------------------------------------------------------------------------
(* process *)

\* bpmmin=40, bpmmax=180 of fit_peaks
default_bpmmin == 40

default_bpmmax == 180

Ended(wd, m, how) == [wd |-> wd, m |-> m, outcome |-> how]

\* lines 624-628
AfterBreathing(wd, rb, calc_freq) ==
    IF rb.outcome # "ok" THEN Ended(wd, rb.m, rb.outcome)
    ELSE IF calc_freq
         THEN Ended(wd, calc_fd_measures(wd, rb.m).m, calc_fd_measures(wd, rb.m).outcome)
         ELSE Ended(wd, rb.m, "ok")

\* line 623
AfterTs(wd, rt, sr, calc_freq) ==
    IF rt.outcome # "ok" THEN Ended(wd, rt.m, rt.outcome)
    ELSE AfterBreathing(wd, calc_breathing(wd, rt.m, sr), calc_freq)

\* line 622
AfterCheckPeaks(wd, m, sr, calc_freq) ==
    AfterTs(wd, calc_ts_measures(wd, m), sr, calc_freq)

\* line 621
AfterCalcRR(wd, m, sr, reject_segmentwise, calc_freq) ==
    IF Len(wd.peaklist) = 0 THEN Ended(wd, m, "IndexError")
    ELSE AfterCheckPeaks(check_peaks(wd, reject_segmentwise), m, sr, calc_freq)

\* line 620
AfterFit(rfit, m, sr, reject_segmentwise, calc_freq) ==
    IF rfit.outcome # "ok" THEN Ended(rfit.wd, m, rfit.outcome)
    ELSE AfterCalcRR(calc_rr(rfit.wd, sr), m, sr, reject_segmentwise, calc_freq)

\* line 619: fit_peaks(hrdata, rol_mean, sample_rate), which leaves bpmmin and
\* bpmmax at the defaults of fit_peaks
ProcessFit(wd, h, rm, sr, bpmmin, bpmmax) ==
    fit_peaks(wd, h, rm, sr, default_bpmmin, default_bpmmax)

\* lines 617-628 of process, for a signal that needs no clipping repair and
\* hampel_correct=False; w is int(windowsize * sample_rate)
process(wd, m, h, sr, w, calc_freq, bpmmin, bpmmax, reject_segmentwise) ==
    IF w > Len(h)
    THEN Ended([wd EXCEPT !.hr = h, !.keys = @ \cup {"hr"}], m, "ValueError")
    ELSE AfterFit(ProcessFit([wd EXCEPT !.hr = h, !.keys = @ \cup {"hr"}], h,
                             rolmean(h, w), sr, bpmmin, bpmmax),
                  m, sr, reject_segmentwise, calc_freq)

----------------------------------------------------------------------------
(* Inputs *)

\* sample rates in Hz; each divides 1000, so an interval in ms is an integer
SampleRates == {4, 10}

\* window sizes in seconds
WindowSizes == {[num |-> 1, den |-> 4], [num |-> 1, den |-> 2],
                [num |-> 3, den |-> 4], [num |-> 1, den |-> 1]}

\* plausibility bounds a caller may pass
BpmBounds == {[bpmmin |-> 40, bpmmax |-> 180], [bpmmin |-> 0, bpmmax |-> 60],
              [bpmmin |-> 100, bpmmax |-> 300]}

\* raise percentages a caller of detect_peaks may pass: calc_breathing passes 1,
\* the others are candidates of fit_peaks
DetectPercs == {1, 5, 20, 100, 200}

\* sample values of the short signals
SigVals == {0, 120, 300}

\* a flat moving average under a signal of n samples
FlatMean(n) == [i \in 1..n |-> [num |-> 100, den |-> 1]]

ShortSignals == UNION {[1..n -> SigVals] : n \in 1..MaxLen}

----------------------------------------------------------------------------
(* Calls on the peak detection functions, on short signals *)

InitDetect ==
    /\ hrdata \in ShortSignals
    /\ sample_rate \in SampleRates
    /\ rol_mean = FlatMean(Len(hrdata))
    /\ working_data = EmptyWorkingData
    /\ measures = EmptyMeasures
    /\ call = NoCall
    /\ outcome = "ok"
    /\ result = <<>>
    /\ returned = <<>>

\* the call rolmean(hrdata, windowsize, sample_rate) with window length w;
\* rollwindow raises ValueError on a window longer than the data
RolMeanCall(w) ==
    /\ w >= 1
    /\ call' = [NoCall EXCEPT !.op = "rolmean", !.window = w]
    /\ IF w > Len(hrdata)
       THEN outcome' = "ValueError" /\ UNCHANGED rol_mean
       ELSE outcome' = "ok" /\ rol_mean' = rolmean(hrdata, w)

\* rol_mean = rolmean(hrdata, windowsize, sample_rate)
RolMean ==
    /\ call.op = "none"
    /\ \E windowsize \in WindowSizes : RolMeanCall(WindowLen(windowsize, sample_rate))
    /\ UNCHANGED <<hrdata, sample_rate, working_data, measures, result, returned>>

\* detect_peaks(hrdata, rol_mean, ma_perc, sample_rate, update_dict)
DetectPeaks ==
    /\ call.op \in {"none", "rolmean"}
    /\ outcome = "ok"
    /\ \E ma_perc \in DetectPercs, update_dict \in BOOLEAN :
         /\ call' = [NoCall EXCEPT !.op = "detect_peaks", !.ma_perc = ma_perc,
                                   !.update_dict = update_dict]
         /\ IF update_dict
            THEN /\ working_data' = detect_peaks(working_data, hrdata, rol_mean,
                                                 ma_perc, sample_rate)
                 /\ result' = <<>>
            ELSE /\ result' = PeakList(hrdata, rol_mean, ma_perc)
                 /\ UNCHANGED working_data
    /\ outcome' = "ok"
    /\ UNCHANGED <<hrdata, sample_rate, rol_mean, measures, returned>>

FitPeaksEnds(r) == working_data' = r.wd /\ outcome' = r.outcome

\* fit_peaks(hrdata, rol_mean, sample_rate, bpmmin, bpmmax)
FitPeaks ==
    /\ call.op \in {"none", "rolmean"}
    /\ outcome = "ok"
    /\ \E b \in BpmBounds :
         /\ call' = [NoCall EXCEPT !.op = "fit_peaks", !.bpmmin = b.bpmmin,
                                   !.bpmmax = b.bpmmax]
         /\ FitPeaksEnds(fit_peaks(working_data, hrdata, rol_mean, sample_rate,
                                   b.bpmmin, b.bpmmax))
    /\ UNCHANGED <<hrdata, sample_rate, rol_mean, measures, result, returned>>

\* clipping thresholds a caller may pass for the short signals
ClipThresholds == {100, 200}

\* clipping_segments = mark_clipping(hrdata, threshold)
MarkClipping ==
    /\ call.op = "none"
    /\ \E threshold \in ClipThresholds :
         /\ call' = [NoCall EXCEPT !.op = "mark_clipping", !.threshold = threshold]
         /\ result' = mark_clipping(hrdata, threshold)
    /\ outcome' = "ok"
    /\ UNCHANGED <<hrdata, sample_rate, rol_mean, working_data, measures, returned>>

\* the iterations argument of enhance_peaks; 2 is its default
Iterations == {0, 1, 2}

\* enhance_peaks(hrdata, iterations)
EnhancePeaks ==
    /\ call.op = "none"
    /\ \E iterations \in Iterations :
         /\ call' = [NoCall EXCEPT !.op = "enhance_peaks", !.iterations = iterations]
         /\ result' = enhance_peaks(hrdata, iterations)
    /\ outcome' = "ok"
    /\ UNCHANGED <<hrdata, sample_rate, rol_mean, working_data, measures, returned>>

NextDetect == RolMean \/ DetectPeaks \/ MarkClipping \/ EnhancePeaks

SpecDetect == InitDetect /\ [][NextDetect]_vars

----------------------------------------------------------------------------
(* Calls on the quality control functions, on sparse peak trains *)

\* distances in samples between successive pulses of a sparse train
GapVals == {2, 6, 12}

\* positions of the first pulse of a sparse train
LeadVals == {1, 2}

\* the 0-based positions of the pulses, from the first position and the gaps
RECURSIVE PulseAt(_, _, _)
PulseAt(lead, gaps, k) == IF k = 0 THEN lead ELSE PulseAt(lead, gaps, k - 1) + gaps[k]

\* the signal with a pulse of 300 at each position and zero elsewhere
SparseSignal(lead, gaps) ==
    [i \in 1..(PulseAt(lead, gaps, Len(gaps)) + 2) |->
        IF \E k \in 0..Len(gaps) : PulseAt(lead, gaps, k) = i - 1 THEN 300 ELSE 0]

\* no pulse at all, or up to MaxPeaks pulses
SparseTrains ==
    {<<0, 0>>} \cup
    {SparseSignal(lead, gaps) :
        lead \in LeadVals, gaps \in UNION {[1..n -> GapVals] : n \in 0..(MaxPeaks - 1)}}

\* one gap of g samples: g - 1 samples of zero and then a pulse of 300
GapThenPulse(g) == [i \in 1..g |-> IF i = g THEN 300 ELSE 0]

RECURSIVE PulsesAfter(_, _)
PulsesAfter(gaps, k) ==
    IF k > Len(gaps) THEN <<0>> ELSE GapThenPulse(gaps[k]) \o PulsesAfter(gaps, k + 1)

\* the pulses of a long train that follow a long gap: the first b after the
\* first pulse, the first c of the second ten, the first t of the third ten
LatePulses(b, c, t) == (2..(1 + b)) \cup (11..(10 + c)) \cup (21..(20 + t))

\* a train of n + 1 pulses, the first at index 2, 2 samples apart but for the
\* late pulses, which come 12 samples after the one before
LongTrain(n, late) ==
    <<0, 0, 300>> \o PulsesAfter([k \in 1..n |-> IF (k + 1) \in late THEN 12 ELSE 2], 1)

\* trains of two windows of ten peaks, or of two windows and five peaks more,
\* with up to MaxLate late pulses in each part
LongTrains ==
    {LongTrain(20, LatePulses(b, c, 0)) : b \in 0..MaxLate, c \in 0..MaxLate} \cup
    {LongTrain(25, LatePulses(b, c, t)) : b \in 0..MaxLate, c \in 0..MaxLate, t \in 1..MaxLate}

\* the state detect_peaks(hrdata, rol_mean, 5, sample_rate) leaves
\* at 10 Hz the first 150 ms hold the samples 0 and 1, at 20 Hz the samples 0..3
QCRates == {10, 20}

InitQC ==
    /\ sample_rate \in QCRates
    /\ hrdata \in (IF sample_rate = 10 THEN SparseTrains \cup LongTrains ELSE SparseTrains)
    /\ rol_mean = FlatMean(Len(hrdata))
    /\ working_data = detect_peaks(EmptyWorkingData, hrdata, rol_mean, 5, sample_rate)
    /\ measures = EmptyMeasures
    /\ call = [NoCall EXCEPT !.op = "detect_peaks", !.ma_perc = 5]
    /\ outcome = "ok"
    /\ result = <<>>
    /\ returned = <<>>

\* calc_rr(sample_rate)
CalcRR ==
    /\ call.op = "detect_peaks"
    /\ call.update_dict
    /\ call' = [NoCall EXCEPT !.op = "calc_rr"]
    /\ IF "peaklist" \in working_data.keys
       THEN outcome' = "ok" /\ working_data' = calc_rr(working_data, sample_rate)
       ELSE outcome' = "KeyError" /\ UNCHANGED working_data
    /\ UNCHANGED <<hrdata, sample_rate, rol_mean, measures, result, returned>>

\* check_peaks(reject_segmentwise); peaklist[0] raises IndexError on an empty
\* peak list, before anything is stored
CheckPeaks ==
    /\ call.op \in {"detect_peaks", "calc_rr"}
    /\ call.update_dict
    /\ outcome = "ok"
    /\ \E reject_segmentwise \in BOOLEAN :
         /\ call' = [NoCall EXCEPT !.op = "check_peaks",
                                   !.reject_segmentwise = reject_segmentwise]
         /\ IF Len(working_data.peaklist) = 0
            THEN outcome' = "IndexError" /\ UNCHANGED working_data
            ELSE /\ outcome' = "ok"
                 /\ working_data' = check_peaks(working_data, reject_segmentwise)
    /\ UNCHANGED <<hrdata, sample_rate, rol_mean, measures, result, returned>>

CalcTsEnds(r) == measures' = r.m /\ outcome' = r.outcome

\* calc_ts_measures()
CalcTsMeasures ==
    /\ call.op = "check_peaks"
    /\ outcome = "ok"
    /\ call' = [NoCall EXCEPT !.op = "calc_ts_measures"]
    /\ CalcTsEnds(calc_ts_measures(working_data, measures))
    /\ UNCHANGED <<hrdata, sample_rate, rol_mean, working_data, result, returned>>

NextQC == CalcRR \/ CheckPeaks \/ CalcTsMeasures

SpecQC == InitQC /\ [][NextQC]_vars

----------------------------------------------------------------------------
(* Pipeline runs and fits, on pulse trains *)

\* n samples at the resting level of a pulse train
Rest(n) == [i \in 1..n |-> 100]

\* a beat is some resting samples and then one pulse sample
RegularBeat == [gap |-> 2, amp |-> 400]

\* a late beat, a very late beat, a weak beat
OddBeats == {[gap |-> 3, amp |-> 400], [gap |-> 5, amp |-> 400], [gap |-> 2, amp |-> 150]}

Beats(nb, pos, odd) == [k \in 1..nb |-> IF k = pos THEN odd ELSE RegularBeat]

RECURSIVE BeatSignal(_)
BeatSignal(beats) ==
    IF beats = <<>> THEN <<>>
    ELSE Rest(Head(beats).gap) \o <<Head(beats).amp>> \o BeatSignal(Tail(beats))

\* where the odd beat of a train of nb beats is: nowhere, in the middle, at the end
OddAt(nb) == {0, (nb + 1) \div 2, nb}

\* regular trains of up to MaxBeats beats with at most one odd beat
PulseTrains ==
    UNION {{BeatSignal(Beats(nb, pos, odd)) \o Rest(2) :
               pos \in OddAt(nb), odd \in OddBeats} : nb \in 0..MaxBeats}

\* windowsize=0.75 of process
default_windowsize == [num |-> 3, den |-> 4]

\* the options a caller of process may pass
ProcessOptions ==
    {[calc_freq |-> FALSE, bpmmin |-> 40, bpmmax |-> 180, reject_segmentwise |-> FALSE],
     [calc_freq |-> TRUE, bpmmin |-> 40, bpmmax |-> 180, reject_segmentwise |-> FALSE],
     [calc_freq |-> FALSE, bpmmin |-> 40, bpmmax |-> 180, reject_segmentwise |-> TRUE],
     [calc_freq |-> FALSE, bpmmin |-> 0, bpmmax |-> 60, reject_segmentwise |-> FALSE],
     [calc_freq |-> FALSE, bpmmin |-> 100, bpmmax |-> 300, reject_segmentwise |-> FALSE]}

\* the parts of a recording a caller hands to process: all of it, or its first half
Excerpts(h) == {h, SubSeq(h, 1, Len(h) \div 2)}

Init ==
    /\ hrdata \in PulseTrains
    /\ sample_rate = 4
    /\ rol_mean = FlatMean(Len(hrdata))
    /\ working_data = EmptyWorkingData
    /\ measures = EmptyMeasures
    /\ call = NoCall
    /\ outcome = "ok"
    /\ result = <<>>
    /\ returned = <<>>

\* process returns the module-level dict measures itself
ProcessEnds(r) ==
    /\ working_data' = r.wd
    /\ measures' = r.m
    /\ outcome' = r.outcome
    /\ returned' = IF r.outcome = "ok"
                   THEN Append(returned, [ref |-> "measures", snapshot |-> r.m])
                   ELSE returned

\* measures = process(h, sample_rate, calc_freq=..., bpmmin=..., bpmmax=...,
\* reject_segmentwise=...), a first run or a run after one that returned
Process ==
    /\ call.op \in {"none", "process"}
    /\ outcome = "ok"
    /\ Len(returned) < MaxRuns
    /\ \E opt \in ProcessOptions, h \in Excerpts(hrdata) :
         /\ ~NeedsSpline(h, sample_rate, interp_threshold)
         /\ call' = [NoCall EXCEPT !.op = "process", !.calc_freq = opt.calc_freq,
                                   !.bpmmin = opt.bpmmin, !.bpmmax = opt.bpmmax,
                                   !.reject_segmentwise = opt.reject_segmentwise,
                                   !.window = WindowLen(default_windowsize, sample_rate)]
         /\ ProcessEnds(process(working_data, measures, h, sample_rate,
                                WindowLen(default_windowsize, sample_rate),
                                opt.calc_freq, opt.bpmmin, opt.bpmmax,
                                opt.reject_segmentwise))
    /\ UNCHANGED <<hrdata, sample_rate, rol_mean, result>>

Next == RolMean \/ FitPeaks \/ Process

Spec == Init /\ [][Next]_vars

----------------------------------------------------------------------------
(* Properties of the pipeline runs *)

\* C1: a Measures record a run has returned is never mutated afterward: in
\* every later state, also after a second run, each field of the record has the
\* value it had when the run returned and no field has been added.  A returned
\* record is the object returned[i].ref names, whose value now is measures.
C1_ReturnedRecordUnchanged ==
    \A i \in 1..Len(returned) :
        returned[i].ref = "measures" => measures = returned[i].snapshot

\* the keys calc_ts_measures writes
TimeDomainKeys ==
    {"bpm", "ibi", "sdnn", "sdsd", "rmssd", "nn20", "nn50", "pnn20", "pnn50", "hr_mad"}

\* C9: a run whose required stages succeeded is not aborted by the failure of
\* an optional stage (breathing rate, frequency-domain measures): once a run
\* has computed the time-domain measures, it returns the Measures record.  Stated
\* for the first run: when process has ended with the time-domain measures in
\* measures, a record has been returned.
C9_OptionalFailureStillReturns ==
    (call.op = "process" /\ TimeDomainKeys \subseteq measures.keys) => Len(returned) >= 1

\* the bpm fit_peaks computes for the candidate ma_perc on the signal h with the
\* moving average over w samples
CandidateBpm(h, w, ma_perc) ==
    ScanEntry(detect_peaks(EmptyWorkingData, h, rolmean(h, w), ma_perc, sample_rate),
              h, sample_rate, ma_perc).bpm

\* C10: the bpmmin and bpmmax given to process are the bounds fit_peaks
\* applies: the candidate a run records as best has bpmmin <= bpm <= bpmmax.
C10_BestWithinGivenBounds ==
    (call.op = "process" /\ outcome = "ok") =>
        /\ RatLE([num |-> call.bpmmin, den |-> 1],
                 CandidateBpm(working_data.hr, call.window, working_data.best))
        /\ RatLE(CandidateBpm(working_data.hr, call.window, working_data.best),
                 [num |-> call.bpmmax, den |-> 1])

\* the candidates fit_peaks keeps for the signal, the moving average and the
\* bounds of the last call
KeptCandidates ==
    ValidMa(FitScan(EmptyWorkingData, hrdata, rol_mean, sample_rate, 1).rrsd,
            call.bpmmin, call.bpmmax)

\* C2: when no candidate of the list satisfies rrsd > 0.1 and
\* bpmmin <= bpm <= bpmmax, fit_peaks ends in the error NoStableThresholdError.
C2_NoStableThresholdError ==
    (call.op = "fit_peaks" /\ KeptCandidates = <<>>) => outcome = "NoStableThresholdError"

\* what the scan of fit_peaks records for the signal and the moving average
ScannedCandidates == FitScan(EmptyWorkingData, hrdata, rol_mean, sample_rate, 1).rrsd

\* candidate i is kept, no kept candidate has a smaller rrsd, and every kept
\* candidate earlier in the list has a larger one
FirstSmallestKept(entries, i, bpmmin, bpmmax) ==
    /\ ValidCandidate(entries[i], bpmmin, bpmmax)
    /\ \A j \in 1..Len(entries) :
          ValidCandidate(entries[j], bpmmin, bpmmax) =>
              /\ ~RatLT(entries[j].rrsd, entries[i].rrsd)
              /\ j < i => RatLT(entries[i].rrsd, entries[j].rrsd)

\* the peaks detect_peaks finds with the percentage ma_perc
DetectedWith(ma_perc) ==
    detect_peaks(EmptyWorkingData, hrdata, rol_mean, ma_perc, sample_rate).peaklist

FitChoseFirstSmallest(entries, wd, bpmmin, bpmmax) ==
    (\E i \in 1..Len(entries) : ValidCandidate(entries[i], bpmmin, bpmmax)) =>
        /\ outcome = "ok"
        /\ "best" \in wd.keys
        /\ \E i \in 1..Len(entries) :
              /\ entries[i].ma_perc = wd.best
              /\ FirstSmallestKept(entries, i, bpmmin, bpmmax)
        /\ wd.peaklist = DetectedWith(wd.best)

\* C4: when fit_peaks keeps at least one candidate, working_data['best'] is the
\* kept candidate of smallest rrsd, the earliest of the list on a tie, and the
\* peak list left in working_data is the one detect_peaks finds with it.
C4_BestIsFirstSmallest ==
    call.op = "fit_peaks" =>
        FitChoseFirstSmallest(ScannedCandidates, working_data, call.bpmmin, call.bpmmax)

\* some kept candidate has a larger rrsd than another, and the chosen one has
\* the same rrsd as a kept candidate later in the list
TiedAndUntied(kept, best) ==
    /\ \E a, b \in 1..Len(kept) : RatLT(kept[a].rrsd, kept[b].rrsd)
    /\ \E a, b \in 1..Len(kept) :
          a < b /\ kept[a].ma_perc = best /\ kept[b].rrsd = kept[a].rrsd

\* a fit that kept candidates of different rrsd and several of the smallest,
\* and chose neither the first nor the last candidate of the list
C4_Witness ==
    /\ call.op = "fit_peaks"
    /\ outcome = "ok"
    /\ working_data.best \notin {5, 300}
    /\ TiedAndUntied(KeptCandidates, working_data.best)

----------------------------------------------------------------------------
(* Properties of peak detection *)

\* the 0-based indices of the samples above the raised moving average
AboveThreshold(h, raised) == {j - 1 : j \in {k \in 1..Len(h) : IntGT(h[k], raised[k])}}

\* the first index of each maximal contiguous run of a set of indices
RunStarts(above) == {i \in above : (i - 1) \notin above}

\* the maximal contiguous run that starts at index s
RunFrom(above, s) == {i \in above : i >= s /\ \A j \in s..i : j \in above}

\* the first index of a run at which the signal is largest
FirstArgMax(h, run) ==
    CHOOSE i \in run : /\ \A j \in run : h[j + 1] <= h[i + 1]
                       /\ \A j \in run : j < i => h[j + 1] < h[i + 1]

\* one peak per maximal contiguous run
RunPeaks(h, above) ==
    SortedSeq({FirstArgMax(h, RunFrom(above, s)) : s \in RunStarts(above)})

\* C3: the peak list detect_peaks returns holds exactly one peak for each
\* maximal contiguous run of samples above the raised moving average, the first
\* index of the largest sample of that run.
C3_OnePeakPerRun ==
    (call.op = "detect_peaks" /\ ~call.update_dict) =>
        result = RunPeaks(hrdata, AboveThreshold(hrdata, RaisedMean(rol_mean, call.ma_perc)))

\* the 0-based indices of the samples above a clipping threshold
Clipped(h, threshold) == {j - 1 : j \in {k \in 1..Len(h) : h[k] > threshold}}

\* the last index of the maximal contiguous run that starts at index s
RunEnd(above, s) == CHOOSE i \in RunFrom(above, s) : \A j \in RunFrom(above, s) : j <= i

\* the (first, last) index pairs of the runs that start at the listed indices
RunSpans(above, starts) == [k \in 1..Len(starts) |-> <<starts[k], RunEnd(above, starts[k])>>]

\* C11: for a signal with k >= 1 maximal contiguous runs of samples above the
\* threshold, mark_clipping returns exactly k (start, end) pairs in increasing
\* order, the j-th being the first and the last index of the j-th run.
C11_OneSegmentPerRun ==
    call.op = "mark_clipping" =>
        result = RunSpans(Clipped(hrdata, call.threshold),
                          SortedSeq(RunStarts(Clipped(hrdata, call.threshold))))

\* a signal with at least two different sample values
NonConstant(h) == \E i, j \in 1..Len(h) : h[i] # h[j]

\* C15: for every non-constant signal, enhance_peaks(hrdata, iterations=0)
\* returns the same sequence as scale_data(hrdata): the signal scaled to the
\* range [0, 1024], with no squaring applied.
C15_ZeroIterationsScales ==
    (call.op = "enhance_peaks" /\ call.iterations = 0 /\ NonConstant(hrdata)) =>
        result = scale_data(AsReal(hrdata))

\* C7: for every signal of n >= 1 samples and every window length w with
\* 1 <= w <= n, the moving average rolmean returns has exactly n entries.
C7_RolMeanLength ==
    (call.op = "rolmean" /\ outcome = "ok") => Len(rol_mean) = Len(hrdata)

\* a moving average over a window of two samples shorter than the signal, which
\* is one short after the padding and gets a zero appended
C7_Witness ==
    /\ call.op = "rolmean"
    /\ outcome = "ok"
    /\ call.window = 2
    /\ Len(hrdata) >= 3
    /\ Len(rol_mean) = Len(hrdata)

----------------------------------------------------------------------------
(* Properties of the quality control *)

\* 10 * n * max(300, 0.3 * mean) for intervals of sum total and count n
TenfoldMargin(total, n) == IF 3 * total <= 3000 * n THEN 3000 * n ELSE 3 * total

\* x > mean + max(300, 0.3 * mean)
AboveUpper(x, total, n) == 10 * n * x > 10 * total + TenfoldMargin(total, n)

\* x < mean - max(300, 0.3 * mean)
BelowLower(x, total, n) == 10 * n * x < 10 * total - TenfoldMargin(total, n)

\* x equals one of the two thresholds
AtThreshold(x, total, n) ==
    \/ 10 * n * x = 10 * total + TenfoldMargin(total, n)
    \/ 10 * n * x = 10 * total - TenfoldMargin(total, n)

\* the peak that ends interval i is listed among the removed beats
ListedRemoved(wd, i) == InSeq(wd.peaklist[i + 1], wd.removed_beats)

\* the peak that ends interval i is rejected: listed and mask 0, or neither;
\* with reject_segmentwise the mask of a peak that is not listed may have been
\* set to 0 with its window
RejectedIff(wd, i, outside) ==
    /\ ListedRemoved(wd, i) <=> outside
    /\ outside => wd.binary_peaklist[i + 1] = 0
    /\ (~outside /\ ~call.reject_segmentwise) => wd.binary_peaklist[i + 1] = 1

\* C5 as stated: check_peaks rejects the peak at position i+1 (mask 0, listed
\* among the removed beats) exactly when rr[i] is outside the closed interval
\* [lower_threshold, upper_threshold]; an rr[i] equal to a threshold is accepted.
C5_RejectedOutsideClosed ==
    (call.op = "check_peaks" /\ outcome = "ok") =>
        \A i \in 1..Len(working_data.RR_list) :
            RejectedIff(working_data, i,
                        \/ AboveUpper(working_data.RR_list[i], SumSeq(working_data.RR_list),
                                      Len(working_data.RR_list))
                        \/ BelowLower(working_data.RR_list[i], SumSeq(working_data.RR_list),
                                      Len(working_data.RR_list)))

\* C5 amended: check_peaks rejects the peak at position i+1 (mask 0, listed
\* among the removed beats) exactly when rr[i] <= lower_threshold or
\* rr[i] >= upper_threshold; an rr[i] equal to a threshold is rejected.
C5_RejectedOutsideOpen ==
    (call.op = "check_peaks" /\ outcome = "ok") =>
        \A i \in 1..Len(working_data.RR_list) :
            RejectedIff(working_data, i,
                        \/ AboveUpper(working_data.RR_list[i], SumSeq(working_data.RR_list),
                                      Len(working_data.RR_list))
                        \/ BelowLower(working_data.RR_list[i], SumSeq(working_data.RR_list),
                                      Len(working_data.RR_list))
                        \/ AtThreshold(working_data.RR_list[i], SumSeq(working_data.RR_list),
                                       Len(working_data.RR_list)))

\* a check that met an interval equal to a threshold, and rejected its peak
C5_Witness ==
    /\ call.op = "check_peaks"
    /\ outcome = "ok"
    /\ \E i \in 1..Len(working_data.RR_list) :
          /\ AtThreshold(working_data.RR_list[i], SumSeq(working_data.RR_list),
                         Len(working_data.RR_list))
          /\ ListedRemoved(working_data, i)
          /\ working_data.binary_peaklist[i + 1] = 0

\* both peaks of interval i are accepted
BothKept(mask, i) == mask[i] = 1 /\ mask[i + 1] = 1

\* the kept intervals, in order
KeptIntervals(rr, mask) == Pick(rr, SortedSeq({i \in 1..Len(rr) : BothKept(mask, i)}))

\* |rr[i+1] - rr[i]| at the listed positions i
DiffsAt(rr, at) == [k \in 1..Len(at) |-> Abs(rr[at[k] + 1] - rr[at[k]])]

\* the differences of adjacent intervals that are both kept, in order
AdjacentKeptDiffs(rr, mask) ==
    DiffsAt(rr, SortedSeq({i \in 1..(Len(rr) - 1) : BothKept(mask, i) /\ BothKept(mask, i + 1)}))

\* C6: after update_rr, RR_list_cor is the subsequence of the rr[i] with
\* mask[i] = mask[i+1] = 1, and RR_diff holds |rr[i+1] - rr[i]| for exactly the
\* i with rr[i] and rr[i+1] both kept, so no difference spans a gap.
C6_NoDiffAcrossGaps ==
    (call.op = "check_peaks" /\ outcome = "ok") =>
        /\ working_data.RR_list_cor =
               KeptIntervals(working_data.RR_list, working_data.binary_peaklist)
        /\ working_data.RR_diff =
               AdjacentKeptDiffs(working_data.RR_list, working_data.binary_peaklist)

\* two kept intervals with a gap between them, and two adjacent kept intervals
GapBetweenKept(mask, n) ==
    /\ \E i, j \in 1..n : i + 1 < j /\ BothKept(mask, i) /\ BothKept(mask, j)
                          /\ \A k \in (i + 1)..(j - 1) : ~BothKept(mask, k)
    /\ \E i \in 1..(n - 1) : BothKept(mask, i) /\ BothKept(mask, i + 1)

\* an update that kept two adjacent intervals and one beyond a gap, and took
\* the one difference of the adjacent two
C6_Witness ==
    /\ call.op = "check_peaks"
    /\ outcome = "ok"
    /\ GapBetweenKept(working_data.binary_peaklist, Len(working_data.RR_list))
    /\ Len(working_data.RR_diff) = 1

\* the 10-beat window of the peak at (1-based) position k
WindowOf(k) == (k - 1) \div 10

\* the mask check_peaks builds from the removed beats, before any window is zeroed
MaskBefore(wd) ==
    [k \in 1..Len(wd.peaklist) |-> IF InSeq(wd.peaklist[k], wd.removed_beats) THEN 0 ELSE 1]

\* the zeros of a mask in window w
ZerosIn(mask, w) == Cardinality({k \in 1..Len(mask) : WindowOf(k) = w /\ mask[k] = 0})

\* the windows among those listed that hold more than maxrejects zeros
OverRejected(mask, windows) == {w \in windows : ZerosIn(mask, w) > maxrejects}

\* the span recorded for window w: the positions in the signal of its first
\* peak and of the first peak after it, or of the last peak when none follows
WindowSpan(peaklist, w) ==
    <<peaklist[10 * w + 1],
      peaklist[IF 10 * w + 11 <= Len(peaklist) THEN 10 * w + 11 ELSE Len(peaklist)]>>

SpansOf(peaklist, ws) == [j \in 1..Len(ws) |-> WindowSpan(peaklist, ws[j])]

\* the over-rejected windows are zeroed and recorded, every other entry of the
\* mask is as before, and RR_list_cor is taken with the mask left
ZeroedAndRecorded(wd, before, over) ==
    /\ \A k \in 1..Len(before) :
          wd.binary_peaklist[k] = (IF WindowOf(k) \in over THEN 0 ELSE before[k])
    /\ wd.rejected_segments = SpansOf(wd.peaklist, SortedSeq(over))
    /\ wd.RR_list_cor = KeptIntervals(wd.RR_list, wd.binary_peaklist)

\* C12 as stated: with the mask partitioned into consecutive windows of 10
\* beats (the beats after the last full ten forming the last window), after
\* check_binary_quality every window that held more than maxrejects zeros is all
\* zeros and recorded as a rejected segment, every other mask entry is unchanged,
\* and update_rr computes RR_list_cor with the updated mask.
C12_EveryWindowJudged ==
    (call.op = "check_peaks" /\ call.reject_segmentwise /\ outcome = "ok") =>
        ZeroedAndRecorded(working_data, MaskBefore(working_data),
                          OverRejected(MaskBefore(working_data),
                                       0..((Len(working_data.peaklist) - 1) \div 10)))

\* C12 amended: only the complete windows of 10 beats are judged; the beats
\* after the last complete window keep their mask whatever zeros they hold.
C12_CompleteWindowsJudged ==
    (call.op = "check_peaks" /\ call.reject_segmentwise /\ outcome = "ok") =>
        ZeroedAndRecorded(working_data, MaskBefore(working_data),
                          OverRejected(MaskBefore(working_data),
                                       0..((Len(working_data.peaklist) \div 10) - 1)))

\* one complete window was zeroed that held accepted peaks, and another one
\* keeps the rejected peak it held
ZeroedNextToKept(before, n) ==
    /\ \E w \in 0..((n \div 10) - 1) :
          ZerosIn(before, w) > maxrejects /\ ZerosIn(before, w) < 10
    /\ \E w \in 0..((n \div 10) - 1) :
          ZerosIn(before, w) <= maxrejects /\ ZerosIn(before, w) > 0

C12_Witness ==
    /\ call.op = "check_peaks"
    /\ call.reject_segmentwise
    /\ outcome = "ok"
    /\ ZeroedNextToKept(MaskBefore(working_data), Len(working_data.peaklist))
    /\ Len(working_data.rejected_segments) = 1

\* C13: whether reject_segmentwise is off or on, the mask check_peaks leaves
\* has binary_peaklist[0] = 1: the first peak is always accepted.
C13_FirstPeakAccepted ==
    (call.op = "check_peaks" /\ outcome = "ok") => working_data.binary_peaklist[1] = 1

\* what detect_peaks left in working_data before any later call
Detected == detect_peaks(EmptyWorkingData, hrdata, rol_mean, 5, sample_rate)

\* C14: when the peaklist held in working_data after calc_rr has length n >= 2,
\* RR_list has exactly n - 1 entries and ybeat has n entries.
C14_IntervalsOneFewer ==
    (call.op \in {"detect_peaks", "calc_rr"} /\ outcome = "ok"
        /\ Len(working_data.peaklist) >= 2) =>
            /\ Len(working_data.RR_list) = Len(working_data.peaklist) - 1
            /\ Len(working_data.ybeat) = Len(working_data.peaklist)

\* a direct calc_rr call dropped a first peak and left at least two peaks
C14_Witness ==
    /\ call.op = "calc_rr"
    /\ outcome = "ok"
    /\ Len(working_data.peaklist) >= 2
    /\ working_data.peaklist = Tail(Detected.peaklist)
    /\ Len(working_data.RR_list) = Len(working_data.peaklist) - 1

\* C16: the calc_rr call that follows the detection is a no-op: peaklist, ybeat
\* and RR_list after it equal those left by detect_peaks, also when the second
\* detected peak lies within 150 ms of the start of the signal.
C16_SecondCalcRRNoOp ==
    (call.op = "calc_rr" /\ outcome = "ok") =>
        /\ working_data.peaklist = Detected.peaklist
        /\ working_data.ybeat = Detected.ybeat
        /\ working_data.RR_list = Detected.RR_list

\* C8: when RR_diff is empty, calc_ts_measures completes, without a division
\* by zero, and reports pnn20 and pnn50 as NaN.
C8_EmptyDiffGivesNaN ==
    (call.op = "calc_ts_measures" /\ Len(working_data.RR_diff) = 0) =>
        /\ outcome = "ok"
        /\ {"pnn20", "pnn50"} \subseteq measures.keys
        /\ IsNaN(measures.pnn20)
        /\ IsNaN(measures.pnn50)

============================================================================
